---- MODULE Spec2Model ----
(***************************************************************************)
(* Model of the sulk front-end driver: crates/sulk/src/main.rs             *)
(* (run_compiler_with, _run_compiler) and crates/resolve/src/lib.rs        *)
(* (Resolver::parse_and_resolve, resolve_file, check_pragma).              *)
(*                                                                         *)
(* The recursion of resolve_file is an explicit stack of frames; the       *)
(* FileResolver, the Parser and the process environment are external and   *)
(* answer nondeterministically.                                            *)
(***************************************************************************)
EXTENDS Integers, Sequences, FiniteSets, TLC

\* ------------------------------------------------------------------ bounds
\* Number of distinct real (on-disk) SourceFiles the source map can hold.
NumFiles == 2
\* Number of items in the source units of all files of one run.
MaxItems == 3
\* Longest args.input list.
MaxInputs == 2
\* Longest args.import_path list.
MaxImportPaths == 2

\* ------------------------------------------------------------- vocabulary
\* Path strings that occur as entry arguments and as import literals.
PathNames == {"a.sol", "pkg/a.sol"}
\* The `-` argument that requests standard input.
Dash == "-"
\* Values of --import-path.
ImportPathNames == {"lib"}
\* What canonicalize()/strip_prefix() leave of an entry path.
PathForms == {"relative", "absolute", "original"}
\* Values of __SULK_IN_INTEGRATION_TEST (unset, "0", anything else).
EnvMarkers == {"unset", "0", "1"}

NoName == "<none>"
NoValue == "<none>"

\* Sequences over S of length at most n.
SeqsUpTo(S, n) == UNION {[1..k -> S] : k \in 0..n}

\* ----------------------------------------------------------- source files
\* FileName: Stdin, or Real(path).
StdinName == "Stdin"
RealName == "Real"

\* A path handed to FileResolver::resolve_file.
MkPath(s, form) == [path |-> s, form |-> form]

\* An Lrc<SourceFile>: `id` is the pointer identity, `name` its FileName.
StdinId == 0
SourceFile(id, name) == [id |-> id, name |-> name]
NoFile == SourceFile(-1, StdinName)

\* ---------------------------------------------------------------- pragmas
\* ast::PragmaTokens: Version(name, req), Custom(name, value), Verbatim.
VersionNames == {"solidity", "vyper"}
CustomNames == {"abicoder", "experimental", "solidity", "foo"}
CustomValues == {NoValue, "v1", "v2", "ABIEncoderV2", "SMTChecker", "solidity", "foo"}
VersionReqs == {"^0.8.0", "*"}

Pragmas ==
    [shape : {"Version"}, name : VersionNames, value : VersionReqs]
    \cup [shape : {"Custom"}, name : CustomNames, value : CustomValues]
    \cup [shape : {"Verbatim"}, name : {NoName}, value : {NoValue}]

\* The pragmas that occur in the files of a whole run.
PragmaSamples ==
    { [shape |-> "Version", name |-> "solidity", value |-> "^0.8.0"],
      [shape |-> "Custom", name |-> "experimental", value |-> "foo"] }

NoPragma == [shape |-> "Verbatim", name |-> NoName, value |-> NoValue]

\* ------------------------------------------------------------------ spans
NoSpan == [kind |-> "none", file |-> -1, idx |-> 0]
\* item.span: the whole directive, item `idx` of file `f`.
ItemSpan(f, idx) == [kind |-> "item", file |-> f, idx |-> idx]
\* name.span: the name token inside the directive at `span`.
NameSpan(span) == [span EXCEPT !.kind = "name"]
\* The span a parse error points at, somewhere in file `f`.
ParseSpan(f) == [kind |-> "token", file |-> f, idx |-> 0]

\* ------------------------------------------------------------ diagnostics
\* dcx.err(msg).span(span).emit(): one error record.
Diag(msg, span) == [level |-> "error", msg |-> msg, span |-> span]

\* ------------------------------------------------------------ check_pragma
\* check_pragma without the test of the version pragma's name.
check_pragma_any_version(span, pragma) ==
    CASE pragma.shape = "Version" -> <<>>
      [] pragma.shape = "Custom" ->
            CASE pragma.name = "abicoder" /\ pragma.value \in {"v1", "v2"} -> <<>>
              [] pragma.name = "experimental" /\ pragma.value = "ABIEncoderV2" -> <<>>
              [] pragma.name = "experimental" /\ pragma.value = "SMTChecker" -> <<>>
              [] pragma.name = "experimental" /\ pragma.value = "solidity" ->
                    <<Diag("experimental solidity features are not supported", NoSpan)>>
              [] OTHER -> <<Diag("unknown pragma", span)>>
      [] OTHER -> <<Diag("unknown pragma", span)>>

\* check_pragma with the version error at the directive, not at the name.
check_pragma_item_span(span, pragma) ==
    CASE pragma.shape = "Version" ->
            IF pragma.name # "solidity"
            THEN <<Diag("only solidity is supported as a version pragma", span)>>
            ELSE <<>>
      [] pragma.shape = "Custom" ->
            CASE pragma.name = "abicoder" /\ pragma.value \in {"v1", "v2"} -> <<>>
              [] pragma.name = "experimental" /\ pragma.value = "ABIEncoderV2" -> <<>>
              [] pragma.name = "experimental" /\ pragma.value = "SMTChecker" -> <<>>
              [] pragma.name = "experimental" /\ pragma.value = "solidity" ->
                    <<Diag("experimental solidity features are not supported", NoSpan)>>
              [] OTHER -> <<Diag("unknown pragma", span)>>
      [] OTHER -> <<Diag("unknown pragma", span)>>

\* Resolver::check_pragma: the diagnostics it emits for `pragma`, the
\* directive at `span`, in emission order.
check_pragma(span, pragma) ==
    CASE pragma.shape = "Version" ->
            IF pragma.name # "solidity"
            THEN <<Diag("only solidity is supported as a version pragma", NameSpan(span))>>
            ELSE <<>>
      [] pragma.shape = "Custom" ->
            CASE pragma.name = "abicoder" /\ pragma.value \in {"v1", "v2"} -> <<>>
              [] pragma.name = "experimental" /\ pragma.value = "ABIEncoderV2" -> <<>>
              [] pragma.name = "experimental" /\ pragma.value = "SMTChecker" -> <<>>
              [] pragma.name = "experimental" /\ pragma.value = "solidity" ->
                    <<Diag("experimental solidity features are not supported", NoSpan)>>
              [] OTHER -> <<Diag("unknown pragma", span)>>
      [] OTHER -> <<Diag("unknown pragma", span)>>

\* A call check_pragma(span, pragma), and what it has emitted once returned.
PragmaCall(span, pragma) ==
    [span |-> span, pragma |-> pragma, emitted |-> <<>>, returned |-> FALSE]
NoPragmaCall == PragmaCall(NoSpan, NoPragma)

\* ------------------------------------------------------------------ state
VARIABLES
    args,            \* cli::Args: language, input, import_path
    env_marker,      \* __SULK_IN_INTEGRATION_TEST as read by is_testing()
    pc,              \* position of the compiling thread outside resolve_file
    globals_active,  \* SessionGlobals are set on the compiling thread
    compiler_alive,  \* the Compiler (Session, DiagCtxt) has not been dropped
    finish_count,    \* how often finish_diagnostics has printed the error count
    result,          \* what _run_compiler returned; Err when it was unwound
    import_paths,    \* FileResolver: the registered import paths
    ip_i,            \* _run_compiler: index into args.import_path
    source_map,      \* SourceMap: the SourceFiles loaded so far
    files,           \* Resolver.files
    path_i,          \* parse_and_resolve: index into `paths`
    stack,           \* the active resolve_file calls, outermost first
    ret,             \* the Result the last finished call handed to its caller
    dcx,             \* DiagCtxt: the diagnostics emitted, in order
    parses,          \* the files handed to the Parser, in order
    source_units,    \* what the Parser makes of each file, once it has parsed it
    pragma_call,     \* one call of check_pragma on its own: arguments and output
    run,             \* 0: a run on its own; 1, 2: the first and the second of two runs
    world,           \* what the environment has answered in the first of two runs
    first            \* what the first of two runs has left behind

vars == <<args, env_marker, pc, globals_active, compiler_alive, finish_count, result,
          import_paths, ip_i, source_map, files, path_i, stack, ret, dcx, parses,
          source_units, pragma_call, run, world, first>>

session_vars == <<globals_active, compiler_alive, finish_count, pragma_call, run, first>>
resolver_vars == <<source_map, files, path_i, stack, ret, parses, source_units>>

\* The recursion of resolve_file never needs more frames than one per
\* SourceFile (stdin and the real files) and one for the call that is
\* skipped; a recursion that goes deeper does not end and overflows the stack
\* of the compiling thread.
MaxDepth == NumFiles + 2

\* A driver that never asks for the Yul mode.
is_yul_never == FALSE

\* A `stdin` that sees `-` only as the first input.
stdin_only_when_first == Len(args.input) > 0 /\ args.input[1] = Dash

\* Entry paths kept in an order that is not the same in every run.
paths_in_unstable_order ==
    LET ps == SelectSeq(args.input, LAMBDA a : a # Dash)
    IN  IF run = 2 THEN [i \in 1..Len(ps) |-> ps[Len(ps) + 1 - i]] ELSE ps

\* is_yul, `stdin` and `paths` of _run_compiler.
is_yul == args.language = "Yul"
stdin == \E i \in 1..Len(args.input) : args.input[i] = Dash
paths == SelectSeq(args.input, LAMBDA a : a # Dash)

\* An is_testing() that takes any set marker, "0" too.
is_testing_when_set(marker) == marker # "unset"

\* is_testing(): the marker is set and is not "0".
is_testing(marker) == marker # "unset" /\ marker # "0"

\* DiagCtxt::has_errors(): Err when an error has been emitted.
has_errors(d) == IF \E i \in 1..Len(d) : d[i].level = "error" THEN "Err" ELSE "Ok"

Emit(d) == dcx' = Append(dcx, d)

\* emit_resolve_error of parse_and_resolve: `dcx.err(e.to_string()).emit()`.
emit_resolve_error == Diag("resolve error", NoSpan)

\* An import error without its span.
import_resolve_error_unanchored(span) == Diag("resolve error", NoSpan)

\* The error of a failed import: `dcx.err(e.to_string()).span(item.span).emit()`.
import_resolve_error(span) == Diag("resolve error", span)

\* ------------------------------------------------------------ environment
\* A question a run puts to its environment: the marker, stdin, an entry
\* path, the parse of a file, an item of a file's source unit.
Question(kind, f, i, s) == [kind |-> kind, file |-> f, idx |-> i, path |-> s]
NoAnswers == <<>>
NoFirst == [dcx |-> <<>>, files |-> <<>>, result |-> "none"]

\* The environment answers `a` to `q`. Of two runs over the same files the
\* first one learns the answers and both get the same answer to the same
\* question; a run on its own is answered freely.
Ask(q, a) ==
    /\ (run # 0 /\ q \in DOMAIN world) => world[q] = a
    /\ world' = IF run = 1 /\ q \notin DOMAIN world THEN world @@ (q :> a) ELSE world

\* What a source unit's item is: a pragma, an import of `path` that the
\* FileResolver resolves to file `to`, anything else.
PragmaItem(pragma) == [kind |-> "pragma", pragma |-> pragma, path |-> NoName, to |-> NoFile.id]
ImportItem(path_str, file) == [kind |-> "import", pragma |-> NoPragma, path |-> path_str, to |-> file.id]
OtherItem == [kind |-> "other", pragma |-> NoPragma, path |-> NoName, to |-> NoFile.id]
\* The Parser's answer when it raises a fatal diagnostic.
ParseFatal == [ok |-> FALSE, n |-> -2]

\* --------------------------------------------------- external collaborators
\* FileResolver::resolve_file(path, parent): an error, a SourceFile the
\* source map already holds (the same path again, or another path string
\* that denotes the same file), or a file loaded now under this path.
RealLoaded == {f \in source_map : f.name = RealName}
FreshFiles ==
    IF Cardinality(RealLoaded) < NumFiles
    THEN {SourceFile(Cardinality(RealLoaded) + 1, RealName)}
    ELSE {}
file_resolver_resolve_file(path, parent) == {NoFile} \cup RealLoaded \cup FreshFiles

\* FileResolver::load_stdin(): an error, or the stdin SourceFile.
file_resolver_load_stdin == {NoFile, SourceFile(StdinId, StdinName)}

\* Parser::parse_file: Err, or a source unit of `n` items; a file that is
\* parsed again reads the same. What each item is, is read when the loop of
\* resolve_file reaches it. The files of one run hold MaxItems items in all.
ParseErr == [ok |-> FALSE, n |-> 0]
ParseOk(n) == [ok |-> TRUE, n |-> n]
Unparsed == [ok |-> FALSE, n |-> -1]
FileIds == 0..NumFiles
RECURSIVE ItemsIn(_)
ItemsIn(ids) ==
    IF ids = {} THEN 0
    ELSE LET id == CHOOSE x \in ids : TRUE
         IN  (IF source_units[id].ok THEN source_units[id].n ELSE 0) + ItemsIn(ids \ {id})
parse_file(file) ==
    IF source_units[file.id] # Unparsed
    THEN {source_units[file.id]}
    ELSE {ParseErr} \cup {ParseOk(n) : n \in 0..(MaxItems - ItemsIn(FileIds))}

\* Parser::parse_yul_file_object: Err, or an object that is then discarded.
parse_yul_file_object(file) ==
    IF source_units[file.id] # Unparsed
    THEN {source_units[file.id]}
    ELSE {ParseErr, ParseOk(0)}

\* ------------------------------------------------------ resolve_file frames
\* One call of resolve_file: its `file`, where it stands, the number of
\* items of its source unit once parsed, the index of the item the loop is
\* at, and `path_str` while the import of that item is being followed.
Frame(file) == [file |-> file, pc |-> "enter", n |-> 0, idx |-> 1, path_str |-> NoName]
Top == stack[Len(stack)]
Pop == SubSeq(stack, 1, Len(stack) - 1)
SetTop(fr) == [stack EXCEPT ![Len(stack)] = fr]

\* `parent` of resolve_file: the path of a real file, nothing otherwise.
NoParent == NoFile.id
parent_of(file) == IF file.name = RealName THEN file.id ELSE NoParent

\* A membership test that never finds the file.
never_visited(fs, file) == FALSE

\* A membership test against the most recent file only.
last_visited_only(fs, file) == Len(fs) > 0 /\ fs[Len(fs)].id = file.id

\* self.files.iter().any(|f| Lrc::ptr_eq(f, &file))
already_visited(fs, file) == \E i \in 1..Len(fs) : fs[i].id = file.id

\* A skip that reports a failure.
skip_visited_result_err == "Err"

\* What resolve_file returns for a file that is already visited: Ok(()).
skip_visited_result == "Ok"

\* A resolve_file that records the file at the front of the list.
visit_at_front(fs, file) == <<file>> \o fs

\* A resolve_file that does not record the file.
visit_not_recorded(fs, file) == fs

\* self.files.push(file.clone())
visit(fs, file) == Append(fs, file)

\* A resolve_file that gives up the file when check_pragma emitted an error.
after_check_pragma_fatal(emitted) == IF emitted # <<>> THEN "return" ELSE "continue"

\* What resolve_file does after check_pragma returned: check_pragma returns
\* (), so the loop goes on whatever was emitted.
after_check_pragma(emitted) == "continue"

\* A loop over the import paths that goes on after a duplicate.
after_add_import_path_ignored(new) == "continue"

\* What _run_compiler does after add_import_path returned `new`:
\* `if !new { return Err(dcx.err(msg).emit()) }`.
after_add_import_path(new) == IF new THEN "continue" ELSE "return"

\* A tail of _run_compiler that does not ask the DiagCtxt.
run_compiler_result_unchecked(par, d) == par

\* The tail of _run_compiler: `parse_and_resolve(..)?; dcx.has_errors()?; Ok(())`.
run_compiler_result(par, d) == IF par = "Err" THEN "Err" ELSE has_errors(d)

\* run_in_thread_with_globals and SessionGlobals::with_source_map: the
\* globals are set on the thread while the closure runs and are not set once
\* it is left, by a return or by an unwind.
globals_in_scope == TRUE
globals_out_of_scope == FALSE

\* A guard that reports only when the block is left by a return.
defer_runs_on_return_only(exit) == exit = "defer"

\* `let _finish_diagnostics = defer(..)`: the guard is dropped, and reports,
\* when the block of f(&compiler) is left by a return ("defer") and when it
\* is left by an unwind ("unwinding").
defer_runs_on(exit) == exit \in {"defer", "unwinding"}

\* A closure that leaves the session before it drops the Compiler.
next_stage_exit_first(stage) ==
    CASE stage \in {"defer", "unwinding"} -> "exit"
      [] stage = "exit" -> "drop"
      [] OTHER -> "done"

\* The order of the closure handed to with_source_map: the guard reports,
\* drop(compiler), then with_source_map and the thread return.
next_stage(stage) ==
    CASE stage \in {"defer", "unwinding"} -> "drop"
      [] stage = "drop" -> "exit"
      [] OTHER -> "done"

\* ------------------------------------------------------------------- Init
\* Nothing has run yet: no session, an empty DiagCtxt, an empty Resolver.
Constructed ==
    /\ env_marker = "unread"
    /\ pc = "start"
    /\ globals_active = FALSE
    /\ compiler_alive = FALSE
    /\ finish_count = 0
    /\ result = "none"
    /\ import_paths = {}
    /\ ip_i = 1
    /\ source_map = {}
    /\ files = <<>>
    /\ path_i = 1
    /\ stack = <<>>
    /\ ret = "none"
    /\ dcx = <<>>
    /\ parses = <<>>
    /\ source_units = [id \in FileIds |-> Unparsed]

Init ==
    /\ args \in [language : {"Solidity", "Yul"},
                 input : SeqsUpTo(PathNames \cup {Dash}, MaxInputs),
                 import_path : SeqsUpTo(ImportPathNames, MaxImportPaths)]
    /\ Constructed
    /\ pragma_call = NoPragmaCall
    /\ run = 0
    /\ world = NoAnswers
    /\ first = NoFirst

\* ------------------------------------------------------- run_compiler_with
\* run_in_thread_with_globals, the Compiler is built, with_source_map is
\* entered and the finish_diagnostics guard is armed.
EnterSession ==
    /\ pc = "start"
    /\ pc' = "guard"
    /\ globals_active' = globals_in_scope
    /\ compiler_alive' = TRUE
    /\ UNCHANGED <<args, env_marker, finish_count, result, import_paths, ip_i, dcx,
                   pragma_call, run, world, first>>
    /\ UNCHANGED resolver_vars

\* The guard drops when the block of f(&compiler) is left, by a return or by
\* an unwind: the error count is printed.
FinishDiagnostics ==
    /\ pc \in {"defer", "unwinding"}
    /\ pc' = next_stage(pc)
    /\ finish_count' = IF defer_runs_on(pc) THEN finish_count + 1 ELSE finish_count
    /\ UNCHANGED <<args, env_marker, globals_active, compiler_alive, result, import_paths,
                   ip_i, dcx, pragma_call, run, world, first>>
    /\ UNCHANGED resolver_vars

\* drop(compiler); an unwind drops it with the closure that owns it.
DropCompiler ==
    /\ pc = "drop"
    /\ pc' = next_stage(pc)
    /\ compiler_alive' = FALSE
    /\ UNCHANGED <<args, env_marker, globals_active, finish_count, result, import_paths,
                   ip_i, dcx, pragma_call, run, world, first>>
    /\ UNCHANGED resolver_vars

\* with_source_map and run_in_thread_with_globals return.
ExitSession ==
    /\ pc = "exit"
    /\ pc' = next_stage(pc)
    /\ globals_active' = globals_out_of_scope
    /\ UNCHANGED <<args, env_marker, compiler_alive, finish_count, result, import_paths,
                   ip_i, dcx, pragma_call, run, world, first>>
    /\ UNCHANGED resolver_vars

\* ----------------------------------------------------------- _run_compiler
\* The Yul guard, then Resolver::new and the import maps (which the
\* FileResolver keeps to itself).
YulGuard ==
    /\ pc = "guard"
    /\ IF is_yul
       THEN \E m \in EnvMarkers :
               /\ env_marker' = m
               /\ Ask(Question("marker", NoFile.id, 0, NoName), m)
               /\ IF ~is_testing(m)
                  THEN /\ Emit(Diag("Yul is not supported yet", NoSpan))
                       /\ result' = "Err"
                       /\ pc' = "defer"
                  ELSE /\ pc' = "import_paths"
                       /\ UNCHANGED <<dcx, result>>
       ELSE /\ pc' = "import_paths"
            /\ UNCHANGED <<env_marker, dcx, result, world>>
    /\ UNCHANGED <<args, import_paths, ip_i>>
    /\ UNCHANGED session_vars
    /\ UNCHANGED resolver_vars

\* One iteration of `for path in &args.import_path`.
AddImportPath ==
    /\ pc = "import_paths"
    /\ ip_i <= Len(args.import_path)
    /\ LET path == args.import_path[ip_i]
           new == path \notin import_paths
       IN  /\ import_paths' = import_paths \cup {path}
           /\ IF after_add_import_path(new) = "continue"
              THEN /\ ip_i' = ip_i + 1
                   /\ UNCHANGED <<pc, dcx, result>>
              ELSE /\ Emit(Diag("import path already specified", NoSpan))
                   /\ result' = "Err"
                   /\ pc' = "defer"
                   /\ UNCHANGED ip_i
    /\ UNCHANGED <<args, env_marker>>
    /\ UNCHANGED session_vars
    /\ UNCHANGED resolver_vars
    /\ UNCHANGED world

\* The import paths are registered: parse_and_resolve is called.
CallParseAndResolve ==
    /\ pc = "import_paths"
    /\ ip_i > Len(args.import_path)
    /\ pc' = "par_stdin"
    /\ UNCHANGED <<args, env_marker, result, import_paths, ip_i, dcx>>
    /\ UNCHANGED session_vars
    /\ UNCHANGED resolver_vars
    /\ UNCHANGED world

\* parse_and_resolve has returned `ret`.
RunCompilerReturn ==
    /\ pc = "par_ret"
    /\ result' = run_compiler_result(ret, dcx)
    /\ ret' = "none"
    /\ pc' = "defer"
    /\ UNCHANGED <<args, env_marker, import_paths, ip_i, dcx>>
    /\ UNCHANGED session_vars
    /\ UNCHANGED <<source_map, files, path_i, stack, parses, source_units>>
    /\ UNCHANGED world

\* ------------------------------------------------------- parse_and_resolve
driver_vars == <<args, env_marker, result, import_paths, ip_i>>

\* `if stdin { load_stdin().map_err(emit)?; self.resolve_file(yul, file)?; }`
\* up to the call of resolve_file.
ParLoadStdin ==
    /\ pc = "par_stdin"
    /\ IF stdin
       THEN \E file \in file_resolver_load_stdin :
               /\ Ask(Question("stdin", NoFile.id, 0, Dash), file.id)
               /\ IF file = NoFile
                  THEN /\ Emit(emit_resolve_error)
                       /\ ret' = "Err"
                       /\ pc' = "par_ret"
                       /\ UNCHANGED <<source_map, stack>>
                  ELSE /\ source_map' = source_map \cup {file}
                       /\ stack' = <<Frame(file)>>
                       /\ pc' = "par_stdin_called"
                       /\ UNCHANGED <<dcx, ret>>
       ELSE /\ pc' = "par_paths"
            /\ UNCHANGED <<source_map, stack, dcx, ret, world>>
    /\ UNCHANGED <<files, path_i, parses, source_units>>
    /\ UNCHANGED driver_vars
    /\ UNCHANGED session_vars

\* The `?` on resolve_file of the stdin file.
ParStdinReturned ==
    /\ pc = "par_stdin_called"
    /\ stack = <<>>
    /\ ret # "none"
    /\ IF ret = "Err"
       THEN pc' = "par_ret" /\ UNCHANGED ret
       ELSE pc' = "par_paths" /\ ret' = "none"
    /\ UNCHANGED <<source_map, files, path_i, stack, parses, source_units, dcx>>
    /\ UNCHANGED driver_vars
    /\ UNCHANGED session_vars
    /\ UNCHANGED world

\* One iteration of `for path in paths` up to the call of resolve_file:
\* canonicalize and strip_prefix pick the form of the path, the FileResolver
\* resolves it without a parent.
ParNextPath ==
    /\ pc = "par_paths"
    /\ path_i <= Len(paths)
    /\ \E form \in PathForms :
          LET path == MkPath(paths[path_i], form)
          IN  \E file \in file_resolver_resolve_file(path, NoParent) :
                 /\ Ask(Question("entry", NoParent, 0, path.path), file.id)
                 /\ IF file = NoFile
                    THEN /\ Emit(emit_resolve_error)
                         /\ ret' = "Err"
                         /\ pc' = "par_ret"
                         /\ UNCHANGED <<source_map, stack>>
                    ELSE /\ source_map' = source_map \cup {file}
                         /\ stack' = <<Frame(file)>>
                         /\ pc' = "par_path_called"
                         /\ UNCHANGED <<dcx, ret>>
    /\ UNCHANGED <<files, path_i, parses, source_units>>
    /\ UNCHANGED driver_vars
    /\ UNCHANGED session_vars

\* The `?` on resolve_file of an entry file, and the step to the next path.
ParPathReturned ==
    /\ pc = "par_path_called"
    /\ stack = <<>>
    /\ ret # "none"
    /\ IF ret = "Err"
       THEN pc' = "par_ret" /\ UNCHANGED <<ret, path_i>>
       ELSE /\ pc' = "par_paths"
            /\ ret' = "none"
            /\ path_i' = path_i + 1
    /\ UNCHANGED <<source_map, files, stack, parses, source_units, dcx>>
    /\ UNCHANGED driver_vars
    /\ UNCHANGED session_vars
    /\ UNCHANGED world

\* The loop over `paths` is over: Ok(()).
ParDone ==
    /\ pc = "par_paths"
    /\ path_i > Len(paths)
    /\ ret' = "Ok"
    /\ pc' = "par_ret"
    /\ UNCHANGED <<source_map, files, path_i, stack, parses, source_units, dcx>>
    /\ UNCHANGED driver_vars
    /\ UNCHANGED session_vars
    /\ UNCHANGED world

\* ------------------------------------------------------------ resolve_file
\* The file is already in self.files: `return Ok(())`.
ResolveFileSkip ==
    /\ stack # <<>>
    /\ Top.pc = "enter"
    /\ already_visited(files, Top.file)
    /\ stack' = Pop
    /\ ret' = skip_visited_result
    /\ UNCHANGED <<pc, source_map, files, path_i, parses, source_units, dcx>>
    /\ UNCHANGED driver_vars
    /\ UNCHANGED session_vars
    /\ UNCHANGED world

\* Yul: the file is recorded and parsed as an object; `?` on the parse, the
\* object is dropped, `return Ok(())`.
ResolveFileYul ==
    /\ stack # <<>>
    /\ Top.pc = "enter"
    /\ ~already_visited(files, Top.file)
    /\ is_yul
    /\ files' = visit(files, Top.file)
    /\ parses' = Append(parses, Top.file)
    /\ \E out \in parse_yul_file_object(Top.file) :
          /\ Ask(Question("parse", Top.file.id, 0, NoName), out)
          /\ source_units' = [source_units EXCEPT ![Top.file.id] = out]
          /\ IF out.ok
             THEN ret' = "Ok" /\ UNCHANGED dcx
             ELSE ret' = "Err" /\ Emit(Diag("parse error", ParseSpan(Top.file.id)))
    /\ stack' = Pop
    /\ UNCHANGED <<pc, source_map, path_i>>
    /\ UNCHANGED driver_vars
    /\ UNCHANGED session_vars

\* Solidity: the file is recorded and parsed; `?` on the parse, otherwise
\* the loop over source_unit.items starts.
ResolveFileParse ==
    /\ stack # <<>>
    /\ Top.pc = "enter"
    /\ ~already_visited(files, Top.file)
    /\ ~is_yul
    /\ files' = visit(files, Top.file)
    /\ parses' = Append(parses, Top.file)
    /\ \E out \in parse_file(Top.file) :
          /\ Ask(Question("parse", Top.file.id, 0, NoName), out)
          /\ source_units' = [source_units EXCEPT ![Top.file.id] = out]
          /\ IF out.ok
             THEN /\ stack' = SetTop([Top EXCEPT !.pc = "loop", !.n = out.n])
                  /\ UNCHANGED <<ret, dcx>>
             ELSE /\ Emit(Diag("parse error", ParseSpan(Top.file.id)))
                  /\ ret' = "Err"
                  /\ stack' = Pop
    /\ UNCHANGED <<pc, source_map, path_i>>
    /\ UNCHANGED driver_vars
    /\ UNCHANGED session_vars

\* The Parser raises a fatal diagnostic on the file: DiagCtxt records it and
\* FatalError unwinds through every resolve_file, parse_and_resolve and
\* _run_compiler up to main, which turns it into a failure.
FatalUnwind ==
    /\ stack # <<>>
    /\ Top.pc = "enter"
    /\ ~already_visited(files, Top.file)
    /\ files' = visit(files, Top.file)
    /\ parses' = Append(parses, Top.file)
    /\ Ask(Question("parse", Top.file.id, 0, NoName), ParseFatal)
    /\ Emit(Diag("fatal error", ParseSpan(Top.file.id)))
    /\ stack' = <<>>
    /\ ret' = "none"
    /\ result' = "Err"
    /\ pc' = "unwinding"
    /\ UNCHANGED <<source_map, path_i, source_units>>
    /\ UNCHANGED <<args, env_marker, import_paths, ip_i>>
    /\ UNCHANGED session_vars

\* The loop of resolve_file stands at an item of the source unit.
AtItem ==
    /\ stack # <<>>
    /\ Top.pc = "loop"
    /\ Top.idx <= Top.n

\* The item is ItemKind::Pragma: check_pragma(item.span, pragma).
ItemPragma ==
    /\ AtItem
    /\ \E pragma \in PragmaSamples :
       LET emitted == check_pragma(ItemSpan(Top.file.id, Top.idx), pragma)
       IN  /\ Ask(Question("item", Top.file.id, Top.idx, NoName), PragmaItem(pragma))
           /\ dcx' = dcx \o emitted
           /\ IF after_check_pragma(emitted) = "continue"
              THEN /\ stack' = SetTop([Top EXCEPT !.idx = Top.idx + 1])
                   /\ UNCHANGED ret
              ELSE /\ stack' = Pop
                   /\ ret' = "Err"
    /\ UNCHANGED <<pc, source_map, files, path_i, parses, source_units>>
    /\ UNCHANGED driver_vars
    /\ UNCHANGED session_vars

\* The item is ItemKind::Import, up to the recursive call: the import
\* string is resolved against the parent; `?` on the resolution.
ItemImport ==
    /\ AtItem
    /\ \E path_str \in PathNames :
       LET path == MkPath(path_str, "original")
       IN  \E file \in file_resolver_resolve_file(path, parent_of(Top.file)) :
              /\ Ask(Question("item", Top.file.id, Top.idx, NoName), ImportItem(path_str, file))
              /\ IF file = NoFile
                 THEN /\ Emit(import_resolve_error(ItemSpan(Top.file.id, Top.idx)))
                      /\ ret' = "Err"
                      /\ stack' = Pop
                      /\ UNCHANGED <<pc, source_map>>
                 ELSE IF Len(stack) < MaxDepth
                 THEN /\ source_map' = source_map \cup {file}
                      /\ stack' = Append(SetTop([Top EXCEPT !.pc = "called",
                                                          !.path_str = path_str]),
                                         Frame(file))
                      /\ UNCHANGED <<pc, dcx, ret>>
                 ELSE /\ pc' = "stack_overflow"
                      /\ stack' = <<>>
                      /\ UNCHANGED <<source_map, dcx, ret>>
    /\ UNCHANGED <<files, path_i, parses, source_units>>
    /\ UNCHANGED driver_vars
    /\ UNCHANGED session_vars

\* The `?` on the recursive resolve_file, and the step to the next item.
ImportReturned ==
    /\ stack # <<>>
    /\ Top.pc = "called"
    /\ ret # "none"
    /\ IF ret = "Err"
       THEN stack' = Pop /\ UNCHANGED ret
       ELSE /\ stack' = SetTop([Top EXCEPT !.pc = "loop", !.idx = Top.idx + 1,
                                           !.path_str = NoName])
            /\ ret' = "none"
    /\ UNCHANGED <<pc, source_map, files, path_i, parses, source_units, dcx>>
    /\ UNCHANGED driver_vars
    /\ UNCHANGED session_vars
    /\ UNCHANGED world

\* Any other item kind: nothing.
ItemOther ==
    /\ AtItem
    /\ Ask(Question("item", Top.file.id, Top.idx, NoName), OtherItem)
    /\ stack' = SetTop([Top EXCEPT !.idx = Top.idx + 1])
    /\ UNCHANGED <<pc, source_map, files, path_i, parses, source_units, dcx, ret>>
    /\ UNCHANGED driver_vars
    /\ UNCHANGED session_vars

\* The loop over the items is over: Ok(()).
ResolveFileDone ==
    /\ stack # <<>>
    /\ Top.pc = "loop"
    /\ Top.idx > Top.n
    /\ stack' = Pop
    /\ ret' = "Ok"
    /\ UNCHANGED <<pc, source_map, files, path_i, parses, source_units, dcx>>
    /\ UNCHANGED driver_vars
    /\ UNCHANGED session_vars
    /\ UNCHANGED world

\* ---------------------------------------------------------- specification
Next ==
    \/ EnterSession
    \/ YulGuard
    \/ AddImportPath
    \/ CallParseAndResolve
    \/ ParLoadStdin
    \/ ParStdinReturned
    \/ ParNextPath
    \/ ParPathReturned
    \/ ParDone
    \/ ResolveFileSkip
    \/ ResolveFileYul
    \/ ResolveFileParse
    \/ FatalUnwind
    \/ ItemPragma
    \/ ItemImport
    \/ ImportReturned
    \/ ItemOther
    \/ ResolveFileDone
    \/ RunCompilerReturn
    \/ FinishDiagnostics
    \/ DropCompiler
    \/ ExitSession

Spec == Init /\ [][Next]_vars

\* check_pragma on its own: every pragma directive the parser can produce,
\* at every span.
Spans == {ItemSpan(f, i) : f \in 0..NumFiles, i \in 1..MaxItems}

PragmaInit ==
    /\ args = [language |-> "Solidity", input |-> <<>>, import_path |-> <<>>]
    /\ Constructed
    /\ pragma_call \in {PragmaCall(sp, pr) : sp \in Spans, pr \in Pragmas}
    /\ run = 0
    /\ world = NoAnswers
    /\ first = NoFirst

CheckPragma ==
    /\ ~pragma_call.returned
    /\ LET emitted == check_pragma(pragma_call.span, pragma_call.pragma)
       IN  /\ dcx' = dcx \o emitted
           /\ pragma_call' = [pragma_call EXCEPT !.emitted = emitted, !.returned = TRUE]
    /\ UNCHANGED <<args, env_marker, pc, globals_active, compiler_alive, finish_count,
                   result, import_paths, ip_i, run, world, first>>
    /\ UNCHANGED resolver_vars

PragmaSpec == PragmaInit /\ [][CheckPragma]_vars

\* Two runs, one after the other, from the same arguments and over the same
\* environment: the first run is answered freely, its diagnostics, visited
\* list and result are kept, and the second run starts from a new session.
TwoRunsInit ==
    /\ args \in [language : {"Solidity", "Yul"},
                 input : SeqsUpTo(PathNames \cup {Dash}, MaxInputs),
                 import_path : SeqsUpTo(ImportPathNames, MaxImportPaths)]
    /\ Constructed
    /\ pragma_call = NoPragmaCall
    /\ run = 1
    /\ world = NoAnswers
    /\ first = NoFirst

Restart ==
    /\ run = 1
    /\ pc = "done"
    /\ first' = [dcx |-> dcx, files |-> files, result |-> result]
    /\ run' = 2
    /\ env_marker' = "unread"
    /\ pc' = "start"
    /\ finish_count' = 0
    /\ result' = "none"
    /\ import_paths' = {}
    /\ ip_i' = 1
    /\ source_map' = {}
    /\ files' = <<>>
    /\ path_i' = 1
    /\ stack' = <<>>
    /\ ret' = "none"
    /\ dcx' = <<>>
    /\ parses' = <<>>
    /\ source_units' = [id \in FileIds |-> Unparsed]
    /\ UNCHANGED <<args, globals_active, compiler_alive, pragma_call, world>>

TwoRunsNext ==
    \/ Next
    \/ Restart

TwoRunsSpec == TwoRunsInit /\ [][TwoRunsNext]_vars

\* The compiling thread is the only thread and it runs until it returns.
FairSpec == Spec /\ WF_vars(Next)

\* ================================================================== claims
Count(seq, id) == Cardinality({i \in 1..Len(seq) : seq[i].id = id})
Last(seq) == seq[Len(seq)]
PragmaMsgs == {"only solidity is supported as a version pragma",
               "experimental solidity features are not supported",
               "unknown pragma"}

\* resolve_file is about to run on a file that is in self.files.
EntersVisited ==
    /\ stack # <<>>
    /\ Top.pc = "enter"
    /\ \E i \in 1..Len(files) : files[i].id = Top.file.id

\* C1: in full-language mode no SourceFile is handed to the parser twice in
\* one run, whatever the import graph and the entries are, and resolve_file
\* on a file that is already in the visited list returns Ok without parsing.
C1_ParsedAtMostOnce ==
    /\ [](~is_yul => \A i, j \in 1..Len(parses) : parses[i].id = parses[j].id => i = j)
    /\ [][(~is_yul /\ EntersVisited) => (parses' = parses /\ ret' = "Ok" /\ stack' = Pop)]_vars

\* A imports B and B imports a file that is already visited (A or B): the
\* second visit has returned Ok and two files have been parsed.
C1_Witness ==
    /\ ~is_yul
    /\ Len(stack) = 2
    /\ Top.pc = "called"
    /\ ret = "Ok"
    /\ stack[1].file.id # Top.file.id
    /\ Len(parses) = 2

\* C2: every run returns: the compiling thread reaches the end of
\* run_compiler_with, and a file whose items are being followed is in the
\* visited list.
C2_Terminates ==
    /\ <>(pc = "done")
    /\ [](\A k \in 1..Len(stack) :
             stack[k].pc # "enter" => \E i \in 1..Len(files) : files[i].id = stack[k].file.id)

\* A run that visited stdin and every real file, and read as many items as
\* the files can hold, has returned Ok.
C2_Witness ==
    /\ pc = "done"
    /\ ~is_yul
    /\ result = "Ok"
    /\ Len(files) = NumFiles + 1
    /\ ItemsIn(FileIds) = MaxItems

\* The path string by which the file of frame k (k > 1) was asked for.
Via(k) == stack[k - 1].path_str

C4_EntryIndependence ==
    (/\ pc = "done"
     /\ ~is_yul
     /\ ~stdin
     /\ Len(paths) >= 2
     /\ paths[1] # paths[2]
     /\ files # <<>>
     /\ \E i \in 1..Len(dcx) : dcx[i] = Diag("parse error", ParseSpan(files[1].id)))
        => (path_i > Len(paths) /\ result = "Err")

\* C5 (as claimed): in full-language mode, after a resolution failure is
\* recorded where an entry or an item follows, traversal goes on with the
\* next entry (after stdin: the first entry path) or with the next item of
\* the importing file.
ResolveErrorEmitted ==
    /\ Len(dcx') = Len(dcx) + 1
    /\ Last(dcx').msg = "resolve error"
MoreToResolve ==
    IF is_yul THEN FALSE
    ELSE IF stack # <<>> THEN Top.idx < Top.n
    ELSE IF pc = "par_stdin" THEN Len(paths) >= 1
    ELSE path_i < Len(paths)
C5_ResolutionFailureContinues ==
    [][(ResolveErrorEmitted /\ MoreToResolve) =>
          IF stack # <<>>
          THEN stack' = SetTop([Top EXCEPT !.idx = Top.idx + 1])
          ELSE /\ pc' = "par_paths"
               /\ path_i' = IF pc = "par_stdin" THEN path_i ELSE path_i + 1]_vars

\* C6 (as claimed): when an imported file fails to parse, the importing file
\* goes on with the item after that import.
C6_ParseFailureLocal ==
    [][(/\ stack # <<>>
        /\ Top.pc = "called"
        /\ Top.idx < Top.n
        /\ ret = "Err"
        /\ dcx # <<>>
        /\ Last(dcx).msg = "parse error")
          => stack' = SetTop([Top EXCEPT !.pc = "loop", !.idx = Top.idx + 1,
                                         !.path_str = NoName])]_vars

\* The pragma acceptance table.
AcceptedPragma(p) ==
    \/ p.shape = "Version" /\ p.name = "solidity"
    \/ /\ p.shape = "Custom"
       /\ <<p.name, p.value>> \in {<<"abicoder", "v1">>, <<"abicoder", "v2">>,
                                   <<"experimental", "ABIEncoderV2">>,
                                   <<"experimental", "SMTChecker">>}

\* C7: check_pragma emits no error for a pragma of the acceptance table and
\* exactly one error for any other pragma.
C7_PragmaTable ==
    pragma_call.returned =>
        /\ Len(pragma_call.emitted) = IF AcceptedPragma(pragma_call.pragma) THEN 0 ELSE 1
        /\ \A i \in 1..Len(pragma_call.emitted) : pragma_call.emitted[i].level = "error"
        /\ dcx = pragma_call.emitted

\* check_pragma has returned from `pragma vyper ^0.8.0` with one error.
C7_Witness ==
    /\ pragma_call.returned
    /\ pragma_call.pragma = [shape |-> "Version", name |-> "vyper", value |-> "^0.8.0"]
    /\ Len(pragma_call.emitted) = 1

\* C8: the error for a version pragma with another name than solidity is at
\* the name token; the error for an unknown custom pragma and for a verbatim
\* pragma is at the whole directive.
UnknownCustom(p) ==
    /\ p.shape = "Custom"
    /\ ~AcceptedPragma(p)
    /\ <<p.name, p.value>> # <<"experimental", "solidity">>
C8_PragmaAnchors ==
    pragma_call.returned =>
        LET p == pragma_call.pragma
            out == pragma_call.emitted
        IN  /\ (p.shape = "Version" /\ p.name # "solidity")
                  => (Len(out) = 1 /\ out[1].span = NameSpan(pragma_call.span))
            /\ (UnknownCustom(p) \/ p.shape = "Verbatim")
                  => (Len(out) = 1 /\ out[1].span = pragma_call.span)

\* check_pragma has returned from `pragma vyper *` with an error at the name.
C8_Witness ==
    /\ pragma_call.returned
    /\ pragma_call.pragma = [shape |-> "Version", name |-> "vyper", value |-> "*"]
    /\ Len(pragma_call.emitted) = 1
    /\ pragma_call.emitted[1].span.kind = "name"

\* C9: when check_pragma has recorded an error, resolve_file goes on with the
\* next item of the same file, and an Err is only ever returned right after a
\* resolution or parse error.
PragmaErrorEmitted ==
    /\ Len(dcx') = Len(dcx) + 1
    /\ Last(dcx').msg \in PragmaMsgs
C9_PragmaNonFatal ==
    /\ [][PragmaErrorEmitted =>
             /\ stack # <<>>
             /\ stack' = SetTop([Top EXCEPT !.idx = Top.idx + 1])
             /\ ret' = "none"
             /\ pc' = pc]_vars
    /\ [](ret = "Err" => (dcx # <<>> /\ Last(dcx).msg \in {"resolve error", "parse error"}))

\* Two pragmas were rejected and parse_and_resolve has returned Ok.
C9_Witness ==
    /\ pc = "par_ret"
    /\ ret = "Ok"
    /\ Len(dcx) >= 2
    /\ \A i \in 1..Len(dcx) : dcx[i].msg \in PragmaMsgs

\* C10: the run ends in success exactly when no error was recorded.
C10_SuccessIffNoError ==
    pc = "done" =>
        /\ result \in {"Ok", "Err"}
        /\ result = "Ok" <=> (\A i \in 1..Len(dcx) : dcx[i].level # "error")

\* The run has ended in failure with nothing but a rejected pragma recorded:
\* parse_and_resolve had returned Ok.
C10_Witness ==
    /\ pc = "done"
    /\ result = "Err"
    /\ dcx # <<>>
    /\ \A i \in 1..Len(dcx) : dcx[i].msg \in PragmaMsgs

\* C11: on every exit path of the compile body (Ok, an early or late Err, a
\* fatal unwind) the error count is reported exactly once, and it is reported
\* after the compile body has stopped: nothing is resolved, parsed, recorded
\* or returned after the report.
C11_FinalizedOnce ==
    /\ [](finish_count <= 1)
    /\ [](pc = "done" => finish_count = 1)
    /\ [](finish_count = 1 => (pc \in {"drop", "exit", "done"} /\ stack = <<>>))
    /\ [][finish_count' # finish_count =>
             (pc \in {"defer", "unwinding"} /\ result \in {"Ok", "Err"} /\ compiler_alive)]_vars
    /\ [][finish_count = 1 =>
             UNCHANGED <<dcx, files, parses, source_map, import_paths, result>>]_vars

\* A run that was unwound out of the resolve_file of an imported file has
\* ended with the error count reported.
C11_Witness ==
    /\ pc = "done"
    /\ finish_count = 1
    /\ Len(files) >= 2
    /\ Last(dcx).msg = "fatal error"

\* `-` occurs among the inputs.
DashGiven == \E i \in 1..Len(args.input) : args.input[i] = Dash
\* The place of file `id` in the visited list.
Pos(id) == CHOOSE i \in 1..Len(files) : files[i].id = id

\* C12: the loop over the entry paths is reached only after standard input,
\* when `-` is anywhere among the inputs, has been visited as the first file;
\* the entry paths are taken one by one in the order given, each after the
\* call on the one before has returned; the items of a file are taken one by
\* one in textual order and only by the innermost active call, so an import
\* is resolved after everything reached from the import before it; and the
\* active calls were visited in the order of their nesting.
C12_TraversalOrder ==
    /\ []((DashGiven /\ pc \in {"par_paths", "par_path_called"})
             => (files # <<>> /\ files[1].id = StdinId))
    /\ [][path_i' # path_i =>
             (/\ path_i' = path_i + 1
              /\ pc = "par_path_called"
              /\ stack = <<>>
              /\ ret = "Ok")]_vars
    /\ [][\A j \in 1..Len(stack) :
             (j <= Len(stack') /\ stack'[j].file = stack[j].file
                               /\ stack'[j].idx # stack[j].idx)
                => (j = Len(stack) /\ stack'[j].idx = stack[j].idx + 1)]_vars
    /\ [][files' # files => (stack # <<>> /\ files' = Append(files, Top.file))]_vars
    /\ [](\A j, k \in 1..Len(stack) :
             (j < k /\ stack[k].pc # "enter") => Pos(stack[j].file.id) < Pos(stack[k].file.id))

\* `-` was given after an entry path; stdin, what it imports and the entry
\* were visited, stdin first, and the run has returned Ok.
C12_Witness ==
    /\ pc = "done"
    /\ result = "Ok"
    /\ ~is_yul
    /\ Len(args.input) = 2
    /\ args.input[1] # Dash
    /\ args.input[2] = Dash
    /\ Len(files) = 3
    /\ files[1].id = StdinId
    /\ source_units[StdinId].n >= 1

\* A resolution has failed in this step: an Err is returned and no parse
\* was attempted.
ResolutionFailed == ret = "none" /\ ret' = "Err" /\ parses' = parses

FirstRepeated ==
    LET ip == args.import_path
        rep == {i \in 1..Len(ip) : \E j \in 1..(i - 1) : ip[j] = ip[i]}
    IN  IF rep = {} THEN 0 ELSE CHOOSE i \in rep : \A k \in rep : i <= k

C17_GlobalsScoped ==
    /\ [](globals_active <=> pc \notin {"start", "done"})
    /\ [][finish_count' # finish_count => (globals_active /\ globals_active')]_vars
    /\ [][(compiler_alive /\ ~compiler_alive') =>
             (globals_active /\ globals_active' /\ finish_count = 1)]_vars
    /\ [](pc = "done" => (~globals_active /\ ~compiler_alive))

\* A Yul run that was unwound by the Parser has left the session.
C17_Witness ==
    /\ pc = "done"
    /\ is_yul
    /\ ~globals_active
    /\ ~compiler_alive
    /\ dcx # <<>>
    /\ Last(dcx).msg = "fatal error"

\* The language of the run is Yul.
YulLanguage == args.language = "Yul"

\* C18: in Yul mode a call of resolve_file on a file not yet visited appends
\* the file to the visited list, hands it to the parser once and is over;
\* no call is ever nested in another, no pragma is checked and no import is
\* resolved, so the visited files are entries only, and all the entries when
\* the run returns Ok.
C18_YulNoImports ==
    /\ [][(YulLanguage /\ stack # <<>> /\ ~EntersVisited) =>
             (/\ files' = Append(files, Top.file)
              /\ parses' = Append(parses, Top.file)
              /\ stack' = <<>>)]_vars
    /\ [](YulLanguage =>
             (/\ Len(stack) <= 1
              /\ \A k \in 1..Len(stack) : stack[k].pc = "enter"
              /\ \A i \in 1..Len(dcx) :
                    (dcx[i].msg \notin PragmaMsgs /\ dcx[i].span.kind # "item")
              /\ Len(files) <= (IF DashGiven THEN 1 ELSE 0) + Len(paths)
              /\ parses = files))
    /\ [][(YulLanguage /\ files' # files) =>
             (/\ Len(stack) = 1
              /\ files' = Append(files, stack[1].file)
              /\ pc' \in {pc, "unwinding"})]_vars
    /\ []((YulLanguage /\ pc = "done" /\ result = "Ok") => path_i = Len(paths) + 1)

\* A Yul run over stdin and an entry path has visited and parsed the two
\* and returned Ok.
C18_Witness ==
    /\ pc = "done"
    /\ YulLanguage
    /\ result = "Ok"
    /\ DashGiven
    /\ Len(paths) = 1
    /\ Len(files) = 2
    /\ parses = files

\* C19: the visited list is empty until parse_and_resolve runs, never holds
\* a SourceFile identity twice, changes only by one file appended at its end
\* (the steps that return an Err or unwind included), holds every file that
\* was handed to the parser, whether the parse failed or not, and holds the
\* file of every call that is at its items or follows an import.
C19_VisitedSet ==
    /\ [](pc \in {"start", "guard", "import_paths", "par_stdin"} => files = <<>>)
    /\ [](\A i, j \in 1..Len(files) : files[i].id = files[j].id => i = j)
    /\ [][files' # files =>
             (/\ Len(files') = Len(files) + 1
              /\ SubSeq(files', 1, Len(files)) = files
              /\ stack # <<>>
              /\ Last(files') = Top.file)]_vars
    /\ [](\A i \in 1..Len(parses) : \E j \in 1..Len(files) : files[j] = parses[i])
    /\ [](\A k \in 1..Len(stack) :
             stack[k].pc \in {"loop", "called"}
                => \E j \in 1..Len(files) : files[j] = stack[k].file)

\* stdin and two real files were visited, the parse of the last one failed,
\* and the three are still in the list, in the order of their visits.
C19_Witness ==
    /\ Len(files) = 3
    /\ files[1].id = StdinId
    /\ ret = "Err"
    /\ dcx = <<Diag("parse error", ParseSpan(files[3].id))>>
    /\ parses = files

\* C20: an Err of resolve_file or of parse_and_resolve comes into being in a
\* step that records an error, and is then handed up unchanged through the
\* calls that were active in that step, so each of them recorded an error
\* before it returned Err; a call on a file that is already in the visited
\* list returns Ok and records nothing.
C20_ErrImpliesRecorded ==
    /\ [][(ret' = "Err" /\ ret # "Err") =>
             (/\ Len(dcx') = Len(dcx) + 1
              /\ Last(dcx').level = "error"
              /\ Len(stack') < Len(stack) \/ stack = <<>>)]_vars
    /\ [][ret = "Err" =>
             (/\ dcx' = dcx
              /\ stack' = IF stack = <<>> THEN stack ELSE Pop)]_vars
    /\ []((pc = "par_ret" /\ ret = "Err") => has_errors(dcx) = "Err")
    /\ [](pc = "par_stdin" => dcx = <<>>)
    /\ [][EntersVisited => (dcx' = dcx /\ ret' = "Ok")]_vars

\* parse_and_resolve has returned the Err of an import that could not be
\* resolved two files deep.
C20_Witness ==
    /\ pc = "par_ret"
    /\ ret = "Err"
    /\ Len(files) >= 2
    /\ Len(dcx) = 1
    /\ dcx[1].span.kind = "item"
    /\ dcx[1].span.file = files[2].id

IsPrefix(a, b) == Len(a) <= Len(b) /\ SubSeq(b, 1, Len(a)) = a

====
